---- MODULE Spec2Model ----
(***************************************************************************)
(* Model of the ogimet-scraper ingestion pipeline: the schema resolver     *)
(* (get_column_mapping), the page parser (parse_ogimet_data), the gap      *)
(* calculator (create_date_range / get_missing_dates), the SQLite store    *)
(* (insert_weather_data) and the summary command's thread-pool run.        *)
(*                                                                         *)
(* Text is modelled as a sequence of one-character strings, so that strip, *)
(* split and float parsing are computed character by character.  An        *)
(* Optional value is a sequence of length 0 (None) or 1 (the value).       *)
(***************************************************************************)
EXTENDS Integers, Sequences, FiniteSets, TLC

VARIABLES
    \* schema resolver harness
    title_row, subtitle_row, column_map_result, schema_pc,
    \* page parser harness
    page, parse_result, parse_pc,
    \* gap calculator harness
    gap_from, gap_to, gap_existing, gap_result, gap_pc,
    \* the weather_data table, and the history of the writes made to it
    store, last_write, last_batch,
    \* the summary command: its options, the main thread, the per-date
    \* tasks of the thread pool, and the connection holding the write lock
    opt_from, opt_to, seeded, run_pc, run_error, missing_dates, tasks,
    consumed, db_lock,
    \* the earlier invocations of the command on the same database: the
    \* table as the last one left it, and the dates they had a task for
    previous_runs

schemaVars == <<title_row, subtitle_row, column_map_result, schema_pc>>

parseVars == <<page, parse_result, parse_pc>>

gapVars == <<gap_from, gap_to, gap_existing, gap_result, gap_pc>>

storeVars == <<store, last_write, last_batch>>

runVars == <<opt_from, opt_to, seeded, run_pc, run_error, missing_dates,
             tasks, consumed, db_lock, previous_runs>>

vars == <<schemaVars, parseVars, gapVars, storeVars, runVars>>

-----------------------------------------------------------------------------
(* Optional values and small helpers *)

None == <<>>

Some(v) == <<v>>

IsNone(o) == o = <<>>

Range(s) == {s[i] : i \in DOMAIN s}

SeqsUpTo(S, n) == UNION {[1..k -> S] : k \in 0..n}

\* Python dict assignment d[k] = v on a mapping modelled as a function
DictSet(d, k, v) == [x \in (DOMAIN d) \cup {k} |-> IF x = k THEN v ELSE d[x]]

EmptyDict == [x \in {} |-> 0]

DictValues(d) == {d[k] : k \in DOMAIN d}

SetMax(S) == CHOOSE m \in S : \A x \in S : x <= m

-----------------------------------------------------------------------------
(* Schema resolver: get_column_mapping, src/src/utils.py 414-519 *)

\* keys of the `expected` dictionary
ExpectedTitles ==
    {"Station", "Temperature(C)", "Td.Med(C)", "Hr.Med(%)", "Wind(km/h)",
     "Pres.s.lev(Hp)", "Prec.(mm)", "TotClOct", "LowClOct", "SunD-1(h)",
     "VisKm", "SnowDep.(cm)", "Dailyweather summary"}

\* expected[title]: the ordered subtitle list of a group, None for a
\* single-column title
expected(title) ==
    IF title = "Temperature(C)" THEN Some(<<"Max", "Min", "Med">>)
    ELSE IF title = "Wind(km/h)" THEN Some(<<"Dir.", "Int.", "Gust">>)
    ELSE None

\* the if/elif chain of the single-column branch
SingleField(title) ==
    CASE title = "Station" -> "station"
      [] title = "Td.Med(C)" -> "dew_point"
      [] title = "Hr.Med(%)" -> "humidity"
      [] title = "Pres.s.lev(Hp)" -> "pressure"
      [] title = "Prec.(mm)" -> "precipitation"
      [] title = "TotClOct" -> "total_cloud"
      [] title = "LowClOct" -> "low_cloud"
      [] title = "SunD-1(h)" -> "sun_duration"
      [] title = "VisKm" -> "visibility"
      [] title = "SnowDep.(cm)" -> "snow_depth"
      [] title = "Dailyweather summary" -> "weather_summary"

\* the if/elif chain of the subtitle branch
GroupField(title, subtitle) ==
    CASE title = "Temperature(C)" /\ subtitle = "Max" -> "temp_max"
      [] title = "Temperature(C)" /\ subtitle = "Min" -> "temp_min"
      [] title = "Temperature(C)" /\ subtitle = "Med" -> "temp_med"
      [] title = "Wind(km/h)" /\ subtitle = "Dir." -> "wind_dir"
      [] title = "Wind(km/h)" /\ subtitle = "Int." -> "wind_speed"
      [] title = "Wind(km/h)" /\ subtitle = "Gust" -> "wind_gust"

\* mutant: a subtitle missing from the subtitle row keeps its column
MissingSubtitleReserved(st) == [st EXCEPT !.current_index = @ + 1]

\* line 483: `if subtitle in subtitle_row` has no else branch
MissingSubtitle(st) == st

\* for subtitle in subtitles: if subtitle in subtitle_row: assign, advance
RECURSIVE WalkSubtitles(_, _, _, _, _)
WalkSubtitles(title, subtitles, j, subrow, st) ==
    IF j > Len(subtitles) THEN st
    ELSE IF subtitles[j] \in Range(subrow)
         THEN WalkSubtitles(title, subtitles, j + 1, subrow,
                  [column_map |-> DictSet(st.column_map,
                                          GroupField(title, subtitles[j]),
                                          st.current_index),
                   current_index |-> st.current_index + 1])
         ELSE WalkSubtitles(title, subtitles, j + 1, subrow, MissingSubtitle(st))

\* mutant: an unknown title does not take a column
UnknownTitleIgnored(st) == st

\* lines 447-450: an unknown title is printed, current_index += 1, continue
UnknownTitle(st) == [st EXCEPT !.current_index = @ + 1]

\* for title in title_row: ...
RECURSIVE WalkTitles(_, _, _, _)
WalkTitles(titles, i, subrow, st) ==
    IF i > Len(titles) THEN st
    ELSE IF titles[i] \notin ExpectedTitles
         THEN WalkTitles(titles, i + 1, subrow, UnknownTitle(st))
    ELSE IF IsNone(expected(titles[i]))
         THEN WalkTitles(titles, i + 1, subrow,
                  [column_map |-> DictSet(st.column_map, SingleField(titles[i]),
                                          st.current_index),
                   current_index |-> st.current_index + 1])
    ELSE WalkTitles(titles, i + 1, subrow,
             WalkSubtitles(titles[i], expected(titles[i])[1], 1, subrow, st))

\* mutant: the contiguity validation is dropped
ValidateMappingNoCheck(column_map) ==
    IF Cardinality(DOMAIN column_map) < 2
    THEN [kind |-> "ok", column_map |-> EmptyDict]
    ELSE [kind |-> "ok", column_map |-> column_map]

\* mutant: the index gap is looked for before the fields are counted
ValidateMappingGapFirst(column_map) ==
    IF DOMAIN column_map = {} THEN [kind |-> "ok", column_map |-> EmptyDict]
    ELSE IF 0..SetMax(DictValues(column_map)) # DictValues(column_map)
    THEN [kind |-> "raise", column_map |-> EmptyDict]
    ELSE IF Cardinality(DOMAIN column_map) < 2
    THEN [kind |-> "ok", column_map |-> EmptyDict]
    ELSE [kind |-> "ok", column_map |-> column_map]

\* lines 500-519: fewer than two fields gives {}, an index gap raises
\* (a bare `raise` with no active exception is a RuntimeError)
ValidateMapping(column_map) ==
    IF Cardinality(DOMAIN column_map) < 2
    THEN [kind |-> "ok", column_map |-> EmptyDict]
    ELSE LET max_index == SetMax(DictValues(column_map))
             expected_indices == 0..max_index
             actual_indices == DictValues(column_map)
         IN IF expected_indices # actual_indices
            THEN [kind |-> "raise", column_map |-> EmptyDict]
            ELSE [kind |-> "ok", column_map |-> column_map]

get_column_mapping(titles, subrow) ==
    ValidateMapping(
        WalkTitles(titles, 1, subrow,
                   [column_map |-> EmptyDict, current_index |-> 0]).column_map)

-----------------------------------------------------------------------------
(* Text helpers: str.strip, str.split, `in`, float() *)

Whitespace == {" "}

Digits == {"0", "1", "2", "3", "4", "5", "6", "7", "8", "9"}

DigitVal(c) ==
    CASE c = "0" -> 0 [] c = "1" -> 1 [] c = "2" -> 2 [] c = "3" -> 3
      [] c = "4" -> 4 [] c = "5" -> 5 [] c = "6" -> 6 [] c = "7" -> 7
      [] c = "8" -> 8 [] c = "9" -> 9

RECURSIVE LStrip(_)
LStrip(s) == IF s # <<>> /\ Head(s) \in Whitespace THEN LStrip(Tail(s)) ELSE s

RECURSIVE RStrip(_)
RStrip(s) ==
    IF s # <<>> /\ s[Len(s)] \in Whitespace
    THEN RStrip(SubSeq(s, 1, Len(s) - 1)) ELSE s

\* str.strip()
Strip(s) == RStrip(LStrip(s))

StartsWithAt(s, sep, i) ==
    /\ i + Len(sep) - 1 <= Len(s)
    /\ \A k \in 1..Len(sep) : s[i + k - 1] = sep[k]

\* first index >= from where sep occurs in s, 0 when there is none
RECURSIVE FindSub(_, _, _)
FindSub(s, sep, from) ==
    IF from + Len(sep) - 1 > Len(s) THEN 0
    ELSE IF StartsWithAt(s, sep, from) THEN from
    ELSE FindSub(s, sep, from + 1)

\* `sep in s`
Contains(s, sep) == FindSub(s, sep, 1) # 0

\* str.split(sep) for a non-empty separator: the list of all parts
RECURSIVE Split(_, _)
Split(s, sep) ==
    LET at == FindSub(s, sep, 1)
    IN IF at = 0 THEN <<s>>
       ELSE <<SubSeq(s, 1, at - 1)>>
            \o Split(SubSeq(s, at + Len(sep), Len(s)), sep)

RECURSIVE DigitsVal(_)
DigitsVal(s) ==
    IF s = <<>> THEN 0
    ELSE DigitsVal(SubSeq(s, 1, Len(s) - 1)) * 10 + DigitVal(s[Len(s)])

RECURSIVE Pow10(_)
Pow10(n) == IF n = 0 THEN 1 ELSE 10 * Pow10(n - 1)

\* a decimal m * 10^-e without trailing zero digits: 22.0 and 22 are equal
RECURSIVE Normalize(_)
Normalize(d) ==
    IF d.e > 0 /\ d.m % 10 = 0 THEN Normalize([m |-> d.m \div 10, e |-> d.e - 1])
    ELSE d

\* float(value) on plain decimal text: [sign] digits [. digits]; anything
\* else is a ValueError (None here).  Exponents, inf and nan are not in the
\* cell alphabet.
ParseFloat(s) ==
    LET signed == s # <<>> /\ s[1] \in {"+", "-"}
        body == IF signed THEN Tail(s) ELSE s
        dot == FindSub(body, <<".">>, 1)
        ip == IF dot = 0 THEN body ELSE SubSeq(body, 1, dot - 1)
        fp == IF dot = 0 THEN <<>> ELSE SubSeq(body, dot + 1, Len(body))
        valid == /\ Range(ip) \subseteq Digits
                 /\ Range(fp) \subseteq Digits
                 /\ Len(ip) + Len(fp) >= 1
        mag == DigitsVal(ip) * Pow10(Len(fp)) + DigitsVal(fp)
    IN IF ~valid THEN None
       ELSE Some(Normalize([m |-> IF signed /\ s[1] = "-" THEN 0 - mag ELSE mag,
                            e |-> Len(fp)]))

\* null_if_empty, src/src/utils.py 553-558
empty_values == {<<>>, <<"-", "-", "-", "-", "-">>, <<"-", "-", "-", "-">>,
                 <<"-", "-", "-">>}

null_if_empty(value) == IF value \in empty_values THEN None ELSE Some(value)

\* parse_numeric, src/src/utils.py 403-411
parse_numeric(value) ==
    IF IsNone(null_if_empty(value)) THEN None
    ELSE ParseFloat(null_if_empty(value)[1])

-----------------------------------------------------------------------------
(* Page parser and row extractor: parse_ogimet_data, src/src/utils.py      *)
(* 228-400.  A page is None (no table matches the fingerprint) or the      *)
(* table: a sequence of rows.  A row is [th, td]: the texts of its th      *)
(* cells and its td cells; a td cell is [text, a] where a is None or the   *)
(* first anchor [text, onmouseover] and onmouseover is None or the         *)
(* attribute text.                                                         *)

\* the fields of the WeatherData model, src/src/utils.py 201-225
WeatherFields ==
    {"date", "time", "station_id", "station_name", "temp_max", "temp_min",
     "temp_med", "wind_dir", "wind_speed", "wind_gust", "pressure",
     "precipitation", "total_cloud", "low_cloud", "sun_duration",
     "visibility", "humidity", "dew_point", "weather_summary", "snow_depth"}

\* the fields read with parse_numeric, lines 313-379
NumericFields ==
    {"temp_max", "temp_min", "temp_med", "humidity", "dew_point",
     "wind_speed", "wind_gust", "pressure", "precipitation", "total_cloud",
     "low_cloud", "sun_duration", "visibility", "snow_depth"}

\* mutant: the weather summary cell is read as well
TextFieldsWithSummary == {"wind_dir", "weather_summary"}

\* the fields read with null_if_empty, lines 337-340
TextFields == {"wind_dir"}

CaptionMark == <<"C", "A", "P", "T", "I", "O", "N", ",">>

SummaryLabel == <<"S", "u", "m", "m", "a", "r", "y">>

\* lines 282-292: the station label of a row; "raise" is the IndexError of
\* the two chained splits, which no handler catches
StationLabel(cells) ==
    LET cell == cells[1]
        anchor == IF IsNone(cell.a) THEN None ELSE cell.a[1]
        mouseover ==
            IF IsNone(cell.a) \/ IsNone(anchor.onmouseover) THEN <<>>
            ELSE anchor.onmouseover[1]
    IN IF ~IsNone(cell.a) /\ mouseover # <<>>
       THEN IF Contains(mouseover, CaptionMark)
            THEN LET afterCaption == Split(mouseover, CaptionMark)[2]
                     quoted == Split(afterCaption, <<"'">>)
                 IN IF Len(quoted) < 2
                    THEN [kind |-> "raise", station |-> None]
                    ELSE [kind |-> "ok",
                          station |-> null_if_empty(Strip(quoted[2]))]
            ELSE [kind |-> "ok", station |-> null_if_empty(Strip(anchor.text))]
       ELSE [kind |-> "ok", station |-> null_if_empty(Strip(cell.text))]

\* lines 297-302: station.split("-")[0] and station.split("-")[1]
SplitStation(station) ==
    LET parts == Split(station, <<"-">>)
    IN IF Len(parts) < 2 THEN [kind |-> "IndexError"]
       ELSE [kind |-> "ok",
             station_id |-> Strip(parts[1]),
             station_name |-> Strip(parts[2])]

\* mutant: the IndexError of the station split leaves the loop
InvalidStationFormatRaises == "raise"

\* lines 300-302: `except IndexError` prints "Invalid station format" and
\* continues with the next row
InvalidStationFormat == "skip"

\* lines 305-379: the row_data dictionary; a key is present exactly when
\* its `if "<field>" in column_map` branch ran
RowData(query_date, query_time, id, name, cells, column_map) ==
    LET keys == {"date", "time", "station_id", "station_name"}
                \cup ((NumericFields \cup TextFields) \cap DOMAIN column_map)
    IN [k \in keys |->
          CASE k = "date" -> query_date
            [] k = "time" -> query_time
            [] k = "station_id" -> id
            [] k = "station_name" -> name
            [] k \in NumericFields ->
                 parse_numeric(Strip(cells[column_map[k] + 1].text))
            [] k \in TextFields ->
                 null_if_empty(Strip(cells[column_map[k] + 1].text))]

\* WeatherData(**row_data), line 394: absent optional fields default to
\* None; snow_depth is Optional[int], and a float with a fractional part
\* fails validation
WeatherDataValid(row_data) ==
    "snow_depth" \in DOMAIN row_data
        => (IsNone(row_data["snow_depth"]) \/ row_data["snow_depth"][1].e = 0)

WeatherData(row_data) ==
    [f \in WeatherFields |->
        IF f \in DOMAIN row_data THEN row_data[f] ELSE None]

\* mutant: the field counts are never compared
FieldCountsAgree(len_row_data, len_column_map) == FALSE

\* line 384: if len_row_data != len(column_map)
FieldCountMismatch(len_row_data, len_column_map) ==
    len_row_data # len_column_map

\* one iteration of the loop at line 276: "skip" is `continue`, "break"
\* the cross-check, "append" a record added to the batch, "raise" an
\* exception that leaves parse_ogimet_data
ExtractRow(query_date, query_time, row, column_map) ==
    LET cells == row.td
        label == StationLabel(cells)
        station == label.station
        split == SplitStation(station[1])
        row_data == RowData(query_date, query_time, split.station_id,
                            split.station_name, cells, column_map)
        len_row_data == Cardinality(DOMAIN row_data) - 2
    IN IF Len(cells) < Cardinality(DOMAIN column_map) THEN [act |-> "skip"]
       ELSE IF label.kind = "raise" THEN [act |-> "raise"]
       ELSE IF IsNone(station) \/ station[1] = SummaryLabel THEN [act |-> "skip"]
       ELSE IF split.kind = "IndexError" THEN [act |-> InvalidStationFormat]
       ELSE IF FieldCountMismatch(len_row_data, Cardinality(DOMAIN column_map))
            THEN [act |-> "break"]
       ELSE IF ~WeatherDataValid(row_data) THEN [act |-> "skip"]
       ELSE [act |-> "append", weather_data |-> WeatherData(row_data)]

\* for row in table.find_all("tr")[2:]
RECURSIVE ExtractRows(_, _, _, _, _, _)
ExtractRows(query_date, query_time, rows, i, column_map, batch) ==
    IF i > Len(rows) THEN [kind |-> "ok", batch |-> batch]
    ELSE LET r == ExtractRow(query_date, query_time, rows[i], column_map)
         IN CASE r.act = "skip" ->
                   ExtractRows(query_date, query_time, rows, i + 1, column_map,
                               batch)
              [] r.act = "break" -> [kind |-> "ok", batch |-> batch]
              [] r.act = "raise" -> [kind |-> "raise", batch |-> <<>>]
              [] r.act = "append" ->
                   ExtractRows(query_date, query_time, rows, i + 1, column_map,
                               Append(batch, r.weather_data))

\* parse_ogimet_data.  headers = table.find_all("tr")[1:3]; with fewer than
\* three rows get_column_mapping indexes a missing header row (IndexError)
parse_ogimet_data(query_date, query_time, html_content) ==
    IF IsNone(html_content) THEN [kind |-> "ok", batch |-> <<>>]
    ELSE LET table == html_content[1]
         IN IF Len(table) < 3 THEN [kind |-> "raise", batch |-> <<>>]
            ELSE LET cm == get_column_mapping(table[2].th, table[3].th)
                 IN IF cm.kind = "raise" THEN [kind |-> "raise", batch |-> <<>>]
                    ELSE IF DOMAIN cm.column_map = {}
                         THEN [kind |-> "ok", batch |-> <<>>]
                    ELSE ExtractRows(query_date, query_time, table, 3,
                                     cm.column_map, <<>>)

-----------------------------------------------------------------------------
(* Dates.  A date string "YYYY-MM-DD" is the triple <<year, month, day>>   *)
(* of its three numbers; a datetime is the day's ordinal, counted from     *)
(* the Epoch (ordinal 1).    strptime and strftime convert between the two   *)
(* by calendar arithmetic.                                                 *)

Epoch == <<2023, 1, 1>>

BaseYear == Epoch[1]

IsLeap(y) == (y % 4 = 0 /\ y % 100 # 0) \/ y % 400 = 0

DaysInYear(y) == IF IsLeap(y) THEN 366 ELSE 365

DaysInMonth(y, m) ==
    IF m = 2 THEN (IF IsLeap(y) THEN 29 ELSE 28)
    ELSE IF m \in {4, 6, 9, 11} THEN 30 ELSE 31

RECURSIVE DaysBeforeYear(_)
DaysBeforeYear(y) ==
    IF y <= BaseYear THEN 0 ELSE DaysBeforeYear(y - 1) + DaysInYear(y - 1)

RECURSIVE DaysBeforeMonth(_, _)
DaysBeforeMonth(y, m) ==
    IF m <= 1 THEN 0 ELSE DaysBeforeMonth(y, m - 1) + DaysInMonth(y, m - 1)

\* datetime.strptime(s, "%Y-%m-%d"): None stands for its ValueError
strptime(s) ==
    IF /\ s[1] >= BaseYear
       /\ s[2] \in 1..12
       /\ s[3] >= 1
       /\ s[3] <= DaysInMonth(s[1], s[2])
    THEN Some(DaysBeforeYear(s[1]) + DaysBeforeMonth(s[1], s[2]) + s[3])
    ELSE None

RECURSIVE YearOf(_, _)
YearOf(n, y) == IF n <= DaysInYear(y) THEN <<y, n>> ELSE YearOf(n - DaysInYear(y), y + 1)

RECURSIVE MonthOf(_, _, _)
MonthOf(y, n, m) ==
    IF n <= DaysInMonth(y, m) THEN <<y, m, n>>
    ELSE MonthOf(y, n - DaysInMonth(y, m), m + 1)

\* date.strftime("%Y-%m-%d"), and the f"{yyyy}-{mm:02d}-{dd:02d}" of
\* fetch_ogimet_data (line 33)
strftime(date) == MonthOf(YearOf(date, BaseYear)[1], YearOf(date, BaseYear)[2], 1)

-----------------------------------------------------------------------------
(* Gap calculator: create_date_range and get_missing_dates,                *)
(* src/src/utils.py 561-607                                                *)

\* [start + timedelta(days=x) for x in range(n)]
RECURSIVE DaysFrom(_, _)
DaysFrom(start, n) ==
    IF n <= 0 THEN <<>> ELSE DaysFrom(start, n - 1) \o <<start + (n - 1)>>

\* mutant: the end date is left out of the range
create_date_range_exclusive(from_date, to_date) ==
    IF IsNone(strptime(from_date)) THEN [kind |-> "ValueError", date_range |-> <<>>]
    ELSE IF ~IsNone(to_date)
    THEN IF IsNone(strptime(to_date[1]))
         THEN [kind |-> "ValueError", date_range |-> <<>>]
         ELSE IF strptime(to_date[1])[1] < strptime(from_date)[1]
         THEN [kind |-> "ValueError", date_range |-> <<>>]
         ELSE [kind |-> "ok",
               date_range |-> DaysFrom(strptime(from_date)[1],
                                  strptime(to_date[1])[1] - strptime(from_date)[1])]
    ELSE [kind |-> "ok", date_range |-> <<strptime(from_date)[1]>>]

\* mutant: the order of the two dates is not checked
create_date_range_unchecked(from_date, to_date) ==
    IF IsNone(strptime(from_date)) THEN [kind |-> "ValueError", date_range |-> <<>>]
    ELSE IF ~IsNone(to_date)
    THEN IF IsNone(strptime(to_date[1]))
         THEN [kind |-> "ValueError", date_range |-> <<>>]
         ELSE [kind |-> "ok",
               date_range |-> DaysFrom(strptime(from_date)[1],
                                  strptime(to_date[1])[1] - strptime(from_date)[1] + 1)]
    ELSE [kind |-> "ok", date_range |-> <<strptime(from_date)[1]>>]

\* create_date_range: to_date is None when --to is not given
create_date_range(from_date, to_date) ==
    IF IsNone(strptime(from_date)) THEN [kind |-> "ValueError", date_range |-> <<>>]
    ELSE IF ~IsNone(to_date)
    THEN LET start_date == strptime(from_date)[1]
         IN IF IsNone(strptime(to_date[1]))
            THEN [kind |-> "ValueError", date_range |-> <<>>]
            ELSE LET end_date == strptime(to_date[1])[1]
                 IN IF end_date < start_date
                    THEN [kind |-> "ValueError", date_range |-> <<>>]
                    ELSE [kind |-> "ok",
                          date_range |-> DaysFrom(start_date,
                                                  (end_date - start_date) + 1)]
    ELSE [kind |-> "ok", date_range |-> <<strptime(from_date)[1]>>]

\* [date for date in date_range if date.strftime(...) not in existing_dates]
RECURSIVE FilterMissing(_, _)
FilterMissing(date_range, existing_dates) ==
    IF date_range = <<>> THEN <<>>
    ELSE (IF strftime(Head(date_range)) \notin existing_dates
          THEN <<Head(date_range)>> ELSE <<>>)
         \o FilterMissing(Tail(date_range), existing_dates)

\* get_missing_dates; existing_dates is the result of get_existing_dates()
get_missing_dates(from_date, to_date, existing_dates) ==
    LET r == create_date_range(from_date, to_date)
    IN IF r.kind # "ok" THEN [kind |-> r.kind, missing_dates |-> <<>>]
       ELSE [kind |-> "ok",
             missing_dates |-> FilterMissing(r.date_range, existing_dates)]

-----------------------------------------------------------------------------
(* Store: the weather_data table of src/src/db/sqlite.py, a set of rows    *)
(* (WeatherData records) under PRIMARY KEY (date, time, station_id).       *)

\* PRIMARY KEY (date, time, station_id), sqlite.py line 50
Key(row) == <<row.date, row.time, row.station_id>>

\* mutant: INSERT OR IGNORE, the stored row wins
InsertOrIgnore(rows, row) ==
    IF \E r \in rows : Key(r) = Key(row) THEN rows ELSE rows \cup {row}

\* INSERT OR REPLACE INTO weather_data, sqlite.py lines 99-102: the row
\* with the same key is deleted, then the new one is inserted
InsertOrReplace(rows, row) == {r \in rows : Key(r) # Key(row)} \cup {row}

\* cur.executemany(sql, values), line 105: one statement per record, in
\* the order of the batch
RECURSIVE ExecuteMany(_, _)
ExecuteMany(rows, batch) ==
    IF batch = <<>> THEN rows
    ELSE ExecuteMany(InsertOrReplace(rows, Head(batch)), Tail(batch))

\* mutant: the stored dates are not seen
get_existing_dates_none(rows) == {}

\* get_existing_dates: SELECT DISTINCT date FROM weather_data
get_existing_dates(rows) == {r.date : r \in rows}

StoreIdle ==
    /\ store = {}
    /\ last_write = EmptyDict
    /\ last_batch = <<>>

-----------------------------------------------------------------------------
(* The harnesses at rest: each specification below drives one part and     *)
(* leaves the others idle.                                                 *)

SchemaIdle ==
    /\ title_row = <<>>
    /\ subtitle_row = <<>>
    /\ column_map_result = [kind |-> "none", column_map |-> EmptyDict]
    /\ schema_pc = "idle"

ParseIdle ==
    /\ page = None
    /\ parse_result = [kind |-> "none", batch |-> <<>>]
    /\ parse_pc = "idle"

GapIdle ==
    /\ gap_from = <<BaseYear, 1, 1>>
    /\ gap_to = None
    /\ gap_existing = {}
    /\ gap_result = [kind |-> "none", missing_dates |-> <<>>]
    /\ gap_pc = "idle"

RunIdle ==
    /\ opt_from = Epoch
    /\ opt_to = None
    /\ seeded = {}
    /\ run_pc = "idle"
    /\ run_error = None
    /\ missing_dates = <<>>
    /\ tasks = EmptyDict
    /\ consumed = {}
    /\ db_lock = None
    /\ previous_runs = [store |-> {}, fetched |-> {}]

-----------------------------------------------------------------------------
(* Sample pages *)

PlainCell(t) == [text |-> t, a |-> None]

AnchorCell(t, mo) == [text |-> t, a |-> Some([text |-> t, onmouseover |-> mo])]

HeaderRow(titles) == [th |-> titles, td |-> <<>>]

DataRow(cells) == [th |-> <<>>, td |-> cells]

LabelJakarta ==
    <<"1", "2", "3", "4", "5", " ", "-", " ", "J", "a", "k", "a", "r", "t", "a">>

LabelTwoSeparators ==
    <<"9", "6", " ", "-", " ", "K", "o", "t", "a", " ", "-", " ", "B">>

LabelNoSeparator == <<"J", "a", "k", "a", "r", "t", "a">>

LabelBogor == <<"7", " ", "-", " ", "B", "o", "g", "o", "r">>

MouseoverCaption ==
    <<"o", "(">> \o CaptionMark \o <<"'">> \o LabelBogor \o <<" ", "'", ")">>

MouseoverNoQuote == <<"o", "(">> \o CaptionMark \o <<"x", ")">>

MouseoverPlain == <<"o", "(", ")">>

StationCells ==
    {PlainCell(LabelJakarta),
     PlainCell(<<" ">> \o LabelTwoSeparators),
     PlainCell(LabelNoSeparator),
     PlainCell(SummaryLabel),
     PlainCell(<<"-", "-", "-", "-">>),
     AnchorCell(LabelNoSeparator, Some(MouseoverCaption)),
     AnchorCell(LabelNoSeparator, Some(MouseoverNoQuote)),
     AnchorCell(LabelBogor, Some(MouseoverPlain)),
     AnchorCell(LabelBogor, None)}

ValuesTemperature ==
    <<PlainCell(<<"3", "0", ".", "1">>), PlainCell(<<"2", "2", ".", "0">>),
      PlainCell(<<" ", "-", "2", "6", " ">>)>>

ValuesMixed ==
    <<PlainCell(<<"-", "-", "-", "-", "-">>), PlainCell(<<"a", "b", "c">>),
      PlainCell(<<"7", ".", "5">>), PlainCell(<<"R", "a", "i", "n">>)>>

ValuesWind ==
    <<PlainCell(<<" ", "N", "E", " ">>), PlainCell(<<"1", "2">>),
      PlainCell(<<"3">>), PlainCell(<<"-", "-", "-">>)>>

ValuesShort == <<PlainCell(<<"3", "0", ".", "1">>), PlainCell(<<>>)>>

SampleRows ==
    {DataRow(<<c>> \o ValuesMixed) : c \in StationCells}
    \cup {DataRow(<<PlainCell(LabelJakarta)>> \o v) :
             v \in {ValuesTemperature, ValuesWind, ValuesShort}}

HeaderTemperatureStation ==
    <<HeaderRow(<<"Station", "Temperature(C)">>),
      HeaderRow(<<"Max", "Min", "Med">>)>>

SampleHeaders ==
    {HeaderTemperatureStation,
     <<HeaderRow(<<"Station", "Temperature(C)", "Dailyweather summary">>),
       HeaderRow(<<"Max", "Min", "Med">>)>>,
     <<HeaderRow(<<"Station", "Wind(km/h)", "SnowDep.(cm)",
                   "Dailyweather summary">>),
       HeaderRow(<<"Dir.", "Int.">>)>>,
     <<HeaderRow(<<"Temperature(C)", "Dailyweather summary">>),
       HeaderRow(<<"Max", "Min", "Med">>)>>,
     <<HeaderRow(<<"Temperature(C)", "Hr.Med(%)">>),
       HeaderRow(<<"Max", "Min", "Med">>)>>,
     <<HeaderRow(<<"Unknown", "Station", "Hr.Med(%)">>), HeaderRow(<<>>)>>,
     <<HeaderRow(<<"Station">>), HeaderRow(<<>>)>>}

\* the row before the two header rows (find_all("tr")[0])
CaptionRow == HeaderRow(<<>>)

MaxDataRows == 2

SamplePages ==
    {Some(<<CaptionRow>> \o h \o rows) :
        h \in SampleHeaders, rows \in SeqsUpTo(SampleRows, MaxDataRows)}
    \cup {None, Some(<<>>), Some(<<CaptionRow>>),
          Some(<<CaptionRow, HeaderRow(<<"Station", "Hr.Med(%)">>)>>)}

SampleQueryDate == <<2024, 1, 1>>

QueryTime == "12:00"

ParseInit ==
    /\ SchemaIdle
    /\ GapIdle
    /\ StoreIdle
    /\ RunIdle
    /\ page \in SamplePages
    /\ parse_result = [kind |-> "none", batch |-> <<>>]
    /\ parse_pc = "input"

ParsePage ==
    /\ parse_pc = "input"
    /\ parse_result' = parse_ogimet_data(SampleQueryDate, QueryTime, page)
    /\ parse_pc' = "parsed"
    /\ UNCHANGED <<page, schemaVars, gapVars, storeVars, runVars>>

ParseNext == ParsePage

ParseSpec == ParseInit /\ [][ParseNext]_vars

-----------------------------------------------------------------------------
(* Harness of the schema resolver: header rows drawn from bounded sets *)

MaxTitleRowLen == 3

MaxSubtitleRowLen == 2

TitleVocabulary ==
    {"Station", "Temperature(C)", "Wind(km/h)", "Hr.Med(%)",
     "Dailyweather summary", "Unknown"}

SubtitleVocabulary == {"Max", "Min", "Med", "Dir.", "Int.", "Gust"}

CanonicalTitleRow ==
    <<"Station", "Temperature(C)", "Td.Med(C)", "Hr.Med(%)", "Wind(km/h)",
      "Pres.s.lev(Hp)", "Prec.(mm)", "TotClOct", "LowClOct", "SunD-1(h)",
      "VisKm", "SnowDep.(cm)", "Dailyweather summary">>

CanonicalSubtitleRow == <<"Max", "Min", "Med", "Dir.", "Int.", "Gust">>

TitleRows == SeqsUpTo(TitleVocabulary, MaxTitleRowLen) \cup {CanonicalTitleRow}

SubtitleRows ==
    SeqsUpTo(SubtitleVocabulary, MaxSubtitleRowLen) \cup {CanonicalSubtitleRow}

SchemaInit ==
    /\ ParseIdle
    /\ GapIdle
    /\ StoreIdle
    /\ RunIdle
    /\ title_row \in TitleRows
    /\ subtitle_row \in SubtitleRows
    /\ column_map_result = [kind |-> "none", column_map |-> EmptyDict]
    /\ schema_pc = "input"

ResolveSchema ==
    /\ schema_pc = "input"
    /\ column_map_result' = get_column_mapping(title_row, subtitle_row)
    /\ schema_pc' = "resolved"
    /\ UNCHANGED <<title_row, subtitle_row, parseVars, gapVars, storeVars,
                   runVars>>

SchemaNext == ResolveSchema

SchemaSpec == SchemaInit /\ [][SchemaNext]_vars

-----------------------------------------------------------------------------
(* Harness of the gap calculator: ranges over the first GapWindowDays days *)
(* of January 2024 and over the leap day, against every set of stored      *)
(* dates of the window.                                                    *)

GapWindowDays == 5

GapWindow == {<<2024, 1, d>> : d \in 1..GapWindowDays}

GapDateStrings ==
    GapWindow \cup {<<2023, 12, 31>>, <<2024, 2, 28>>, <<2024, 3, 1>>,
                    <<2023, 2, 29>>}

GapInit ==
    /\ SchemaIdle
    /\ ParseIdle
    /\ StoreIdle
    /\ RunIdle
    /\ gap_from \in GapDateStrings
    /\ gap_to \in {None} \cup {Some(d) : d \in GapDateStrings}
    /\ gap_existing \in SUBSET (GapWindow \cup {<<2024, 2, 29>>})
    /\ gap_result = [kind |-> "none", missing_dates |-> <<>>]
    /\ gap_pc = "input"

ComputeMissingDates ==
    /\ gap_pc = "input"
    /\ gap_result' = get_missing_dates(gap_from, gap_to, gap_existing)
    /\ gap_pc' = "done"
    /\ UNCHANGED <<gap_from, gap_to, gap_existing, schemaVars, parseVars,
                   storeVars, runVars>>

GapNext == ComputeMissingDates

GapSpec == GapInit /\ [][GapNext]_vars

-----------------------------------------------------------------------------
(* Harness of the store: any sequence of insert_weather_data calls with    *)
(* batches of at most MaxBatchLen observations over a few keys.            *)

MaxBatchLen == 2

Observation(date, station_id, temp_max) ==
    WeatherData([k \in {"date", "time", "station_id", "station_name", "temp_max"} |->
        CASE k = "date" -> date
          [] k = "time" -> QueryTime
          [] k = "station_id" -> station_id
          [] k = "station_name" -> LabelNoSeparator
          [] k = "temp_max" -> temp_max])

SampleObservations ==
    {Observation(k[1], k[2], t) :
        k \in {<<<<2024, 1, 1>>, <<"1">>>>, <<<<2024, 1, 1>>, <<"2">>>>,
               <<<<2024, 1, 2>>, <<"1">>>>},
        t \in {None, Some([m |-> 301, e |-> 1])}}

SampleBatches == SeqsUpTo(SampleObservations, MaxBatchLen)

\* the history of the writes: the row most recently written under each key
RECURSIVE RecordWrites(_, _)
RecordWrites(history, batch) ==
    IF batch = <<>> THEN history
    ELSE RecordWrites(DictSet(history, Key(Head(batch)), Head(batch)),
                      Tail(batch))

StoreInit ==
    /\ SchemaIdle
    /\ ParseIdle
    /\ GapIdle
    /\ StoreIdle
    /\ RunIdle

\* insert_weather_data(batch), sqlite.py lines 75-106: the statements of
\* the batch and the commit
InsertWeatherData(batch) ==
    /\ store' = ExecuteMany(store, batch)
    /\ last_write' = RecordWrites(last_write, batch)
    /\ last_batch' = batch
    /\ UNCHANGED <<schemaVars, parseVars, gapVars, runVars>>

StoreNext == \E batch \in SampleBatches : InsertWeatherData(batch)

StoreSpec == StoreInit /\ [][StoreNext]_vars

-----------------------------------------------------------------------------
(* The summary command, src/main.py 32-55, and the per-date task           *)
(* fetch_and_parse_data, src/src/utils.py 522-550, with the fetch          *)
(* fetch_ogimet_data, lines 54-64.                                         *)
(*                                                                         *)
(* A task is [pc, runs, outcomes, html, batch, written, write_failed, exc, *)
(* queued_at_raise]: runs counts the times a worker thread took the task   *)
(* from the queue; pc is "new" (not yet submitted), "queued", "fetch"    *)
(* (before the first GET), "retry" (before the second GET), "parse",       *)
(* "persist", "done" (the future holds a result), "failed" (the future     *)
(* holds an exception) or "cancelled"; outcomes lists the outcome of each  *)
(* GET the task issued; written counts the statements of executemany run   *)
(* in the open transaction; queued_at_raise records that the task was      *)
(* still queued when future.result() raised in the main thread.            *)

\* ThreadPoolExecutor(max_workers=10)
max_workers == 10

\* mutant: a thread is started for every submitted work item
WorkerAlwaysFree(executing) == TRUE

\* ThreadPoolExecutor._adjust_thread_count: a new worker thread is started
\* only while fewer than max_workers exist, and a worker runs one work item
\* at a time
WorkerFree(executing) == executing < max_workers

NewTask ==
    [pc |-> "new", runs |-> 0, outcomes |-> <<>>, html |-> None, batch |-> <<>>,
     written |-> 0, write_failed |-> FALSE, exc |-> None,
     queued_at_raise |-> FALSE]

Terminal == {"done", "failed", "cancelled"}

Executing == {"fetch", "retry", "parse", "persist"}

\* what one requests.get can do: answer 200 with a page, answer with an
\* error status, time out, or fail in another way
GetOutcomes == {"ok", "error_status", "timeout", "connection_error"}

\* mutant: every failed first GET is retried
FirstGetNextRetryAll(outcome) ==
    IF outcome = "ok" THEN "parse" ELSE "retry"

\* lines 54-63: the first GET and raise_for_status; Timeout is caught and
\* retried, any other RequestException (HTTPError included) is re-raised
FirstGetNext(outcome) ==
    CASE outcome = "ok" -> "parse"
      [] outcome = "timeout" -> "retry"
      [] outcome = "error_status" -> "failed"
      [] outcome = "connection_error" -> "failed"

\* mutant: raise_for_status is called on the retry response as well
RetryGetNextChecked(outcome) ==
    IF outcome = "ok" THEN "parse" ELSE "failed"

\* line 60: the second GET, outside any try and without raise_for_status:
\* an error-status response is returned like a page
RetryGetNext(outcome) ==
    CASE outcome = "ok" -> "parse"
      [] outcome = "error_status" -> "parse"
      [] outcome = "timeout" -> "failed"
      [] outcome = "connection_error" -> "failed"

ExceptionOf(outcome) ==
    CASE outcome = "timeout" -> "Timeout"
      [] outcome = "error_status" -> "HTTPError"
      [] outcome = "connection_error" -> "ConnectionError"

\* the body of an error-status response: a page without the data table
ErrorPage == None

\* mutant: the handler lets the insert's exception leave the task
WriteFailureRaises == "failed"

\* lines 542-545: `except Exception` around insert_weather_data prints
\* the error, and fetch_and_parse_data returns normally
WriteFailureResult == "done"

\* mutant: every statement is committed as it runs
KeepWrittenPrefix(rows, batch, written) ==
    ExecuteMany(rows, SubSeq(batch, 1, written))

\* sqlite.py lines 77, 105-106 and 17-20: an exception before
\* conn.commit() closes the connection, which rolls the transaction back
RolledBack(rows, batch, written) == rows

\* mutant: shutdown(cancel_futures=True)
CancelPending(pc) == IF pc = "queued" THEN "cancelled" ELSE pc

\* main.py line 46: leaving the `with ThreadPoolExecutor` block on an
\* exception calls shutdown(wait=True), which cancels nothing
PendingAfterShutdown(pc) == pc

\* the pages a GET may answer with
PageNoTable == None

PageIndexGap ==
    Some(<<CaptionRow, HeaderRow(<<"Unknown", "Station", "Hr.Med(%)">>),
           HeaderRow(<<>>)>>)

PageTwoStations ==
    Some(<<CaptionRow,
           HeaderRow(<<"Station", "Temperature(C)", "Dailyweather summary">>),
           HeaderRow(<<"Max", "Min", "Med">>),
           DataRow(<<PlainCell(LabelJakarta)>> \o ValuesMixed),
           DataRow(<<PlainCell(LabelBogor)>> \o ValuesMixed)>>)

\* one resolved field, at index 1: no field at index 0
PageOneFieldGap ==
    Some(<<CaptionRow, HeaderRow(<<"Unknown", "Station">>), HeaderRow(<<>>),
           DataRow(<<PlainCell(LabelJakarta)>> \o ValuesMixed)>>)

RunPages == {PageNoTable, PageIndexGap, PageOneFieldGap, PageTwoStations}

RunWindowDays == 2

RunWindow ==
    {strftime(strptime(<<2024, 2, 28>>)[1] + i) : i \in 0..(RunWindowDays - 1)}

SeedStore(dates) == {Observation(d, <<"1">>, None) : d \in dates}

RunInit ==
    /\ SchemaIdle
    /\ ParseIdle
    /\ GapIdle
    /\ opt_from \in RunWindow
    /\ opt_to \in {None} \cup {Some(d) : d \in RunWindow}
    /\ seeded \in SUBSET RunWindow
    /\ store = SeedStore(seeded)
    /\ last_write = EmptyDict
    /\ last_batch = <<>>
    /\ run_pc = "start"
    /\ run_error = None
    /\ missing_dates = <<>>
    /\ tasks = EmptyDict
    /\ consumed = {}
    /\ db_lock = None
    /\ previous_runs = [store |-> SeedStore(seeded), fetched |-> {}]

\* what the steps of one run leave alone
idleVars == <<schemaVars, parseVars, gapVars, last_write, last_batch,
              opt_from, opt_to, seeded, previous_runs>>

\* line 40: init_database() creates the two tables when they are missing
InitDatabase ==
    /\ run_pc = "start"
    /\ run_pc' = "gap"
    /\ UNCHANGED <<idleVars, store, run_error, missing_dates, tasks, consumed,
                   db_lock>>

\* line 42: get_missing_dates; its ValueError leaves the command
GetMissingDates ==
    /\ run_pc = "gap"
    /\ LET r == get_missing_dates(opt_from, opt_to, get_existing_dates(store))
       IN IF r.kind = "ok"
          THEN /\ missing_dates' = r.missing_dates
               /\ tasks' = [d \in Range(r.missing_dates) |-> NewTask]
               /\ run_pc' = "submit"
               /\ UNCHANGED run_error
          ELSE /\ run_error' = Some(r.kind)
               /\ run_pc' = "exited"
               /\ UNCHANGED <<missing_dates, tasks>>
    /\ UNCHANGED <<idleVars, store, consumed, db_lock>>

Position(d) == CHOOSE i \in DOMAIN missing_dates : missing_dates[i] = d

\* lines 47-49: executor.submit(fetch_and_parse_data, date), in list order
SubmitTask(d) ==
    /\ run_pc = "submit"
    /\ tasks[d].pc = "new"
    /\ \A e \in DOMAIN tasks : Position(e) < Position(d) => tasks[e].pc # "new"
    /\ tasks' = [tasks EXCEPT ![d].pc = "queued"]
    /\ UNCHANGED <<idleVars, store, run_pc, run_error, missing_dates, consumed,
                   db_lock>>

\* lines 51-54: as_completed(futures) once every date is submitted
StartCollect ==
    /\ run_pc = "submit"
    /\ \A d \in DOMAIN tasks : tasks[d].pc # "new"
    /\ run_pc' = "collect"
    /\ UNCHANGED <<idleVars, store, run_error, missing_dates, tasks, consumed,
                   db_lock>>

\* a free worker thread takes the oldest queued work item
StartTask(d) ==
    /\ tasks[d].pc = "queued"
    /\ \A e \in DOMAIN tasks : Position(e) < Position(d) => tasks[e].pc # "queued"
    /\ WorkerFree(Cardinality({e \in DOMAIN tasks : tasks[e].pc \in Executing}))
    /\ tasks' = [tasks EXCEPT ![d].pc = "fetch", ![d].runs = @ + 1]
    /\ UNCHANGED <<idleVars, store, run_pc, run_error, missing_dates, consumed,
                   db_lock>>

\* fetch_ogimet_data line 55-56: the first GET
FirstGet(d, outcome, html) ==
    /\ tasks[d].pc = "fetch"
    /\ tasks' = [tasks EXCEPT
           ![d].pc = FirstGetNext(outcome),
           ![d].outcomes = Append(@, outcome),
           ![d].html = IF outcome = "ok" THEN html ELSE @,
           ![d].exc = IF FirstGetNext(outcome) = "failed"
                      THEN Some(ExceptionOf(outcome)) ELSE @]
    /\ UNCHANGED <<idleVars, store, run_pc, run_error, missing_dates, consumed,
                   db_lock>>

\* fetch_ogimet_data line 58-60: the GET of the Timeout handler
RetryGet(d, outcome, html) ==
    /\ tasks[d].pc = "retry"
    /\ tasks' = [tasks EXCEPT
           ![d].pc = RetryGetNext(outcome),
           ![d].outcomes = Append(@, outcome),
           ![d].html = IF outcome = "ok" THEN html
                       ELSE IF outcome = "error_status" THEN ErrorPage ELSE @,
           ![d].exc = IF RetryGetNext(outcome) = "failed"
                      THEN Some(ExceptionOf(outcome)) ELSE @]
    /\ UNCHANGED <<idleVars, store, run_pc, run_error, missing_dates, consumed,
                   db_lock>>

\* fetch_and_parse_data line 538 and 541, 546-550: parse the page; an
\* exception of the parser leaves the task, an empty batch ends it
ParseTask(d) ==
    /\ tasks[d].pc = "parse"
    /\ LET r == parse_ogimet_data(strftime(d), QueryTime, tasks[d].html)
       IN tasks' = [tasks EXCEPT
              ![d].pc = IF r.kind = "raise" THEN "failed"
                        ELSE IF r.batch = <<>> THEN "done" ELSE "persist",
              ![d].batch = r.batch,
              ![d].exc = IF r.kind = "raise" THEN Some("RuntimeError") ELSE @]
    /\ UNCHANGED <<idleVars, store, run_pc, run_error, missing_dates, consumed,
                   db_lock>>

\* insert_weather_data, one statement of executemany: the first write
\* takes the database's write lock, held until the transaction ends
ExecuteRow(d) ==
    /\ tasks[d].pc = "persist"
    /\ tasks[d].written < Len(tasks[d].batch)
    /\ db_lock \in {None, Some(d)}
    /\ db_lock' = Some(d)
    /\ tasks' = [tasks EXCEPT ![d].written = @ + 1]
    /\ UNCHANGED <<idleVars, store, run_pc, run_error, missing_dates, consumed>>

\* insert_weather_data line 106: conn.commit()
CommitBatch(d) ==
    /\ tasks[d].pc = "persist"
    /\ tasks[d].written = Len(tasks[d].batch)
    /\ db_lock = Some(d)
    /\ store' = ExecuteMany(store, tasks[d].batch)
    /\ db_lock' = None
    /\ tasks' = [tasks EXCEPT ![d].pc = "done"]
    /\ UNCHANGED <<idleVars, run_pc, run_error, missing_dates, consumed>>

\* an exception anywhere in insert_weather_data (the database is locked,
\* an I/O error, a failing statement or commit)
FailWrite(d) ==
    /\ tasks[d].pc = "persist"
    /\ store' = RolledBack(store, tasks[d].batch, tasks[d].written)
    /\ db_lock' = IF db_lock = Some(d) THEN None ELSE db_lock
    /\ tasks' = [tasks EXCEPT
           ![d].pc = WriteFailureResult,
           ![d].write_failed = TRUE,
           ![d].exc = IF WriteFailureResult = "failed"
                      THEN Some("OperationalError") ELSE @]
    /\ UNCHANGED <<idleVars, run_pc, run_error, missing_dates, consumed>>

\* main.py lines 54-55: as_completed yields a finished future and
\* future.result() returns None or re-raises the task's exception, which
\* leaves the loop and the `with` block
ConsumeResult(d) ==
    /\ run_pc = "collect"
    /\ d \notin consumed
    /\ tasks[d].pc \in {"done", "failed"}
    /\ consumed' = consumed \cup {d}
    /\ IF tasks[d].pc = "failed"
       THEN /\ run_pc' = "unwinding"
            /\ run_error' = tasks[d].exc
            /\ tasks' = [e \in DOMAIN tasks |->
                   [tasks[e] EXCEPT
                       !.pc = PendingAfterShutdown(@),
                       !.queued_at_raise = (tasks[e].pc = "queued")]]
       ELSE UNCHANGED <<run_pc, run_error, tasks>>
    /\ UNCHANGED <<idleVars, store, missing_dates, db_lock>>

\* main.py line 46: ThreadPoolExecutor.__exit__ joins the worker threads,
\* which first run every work item still in the queue
ExecutorExit ==
    /\ \/ run_pc = "unwinding"
       \/ run_pc = "collect" /\ consumed = DOMAIN tasks
    /\ \A d \in DOMAIN tasks : tasks[d].pc \in Terminal
    /\ run_pc' = "exited"
    /\ UNCHANGED <<idleVars, store, run_error, missing_dates, tasks, consumed,
                   db_lock>>

RunNext ==
    \/ InitDatabase
    \/ GetMissingDates
    \/ \E d \in DOMAIN tasks : SubmitTask(d)
    \/ StartCollect
    \/ \E d \in DOMAIN tasks : StartTask(d)
    \/ \E d \in DOMAIN tasks, outcome \in GetOutcomes, html \in RunPages :
          FirstGet(d, outcome, html)
    \/ \E d \in DOMAIN tasks, outcome \in GetOutcomes, html \in RunPages :
          RetryGet(d, outcome, html)
    \/ \E d \in DOMAIN tasks : ParseTask(d)
    \/ \E d \in DOMAIN tasks : ExecuteRow(d)
    \/ \E d \in DOMAIN tasks : CommitBatch(d)
    \/ \E d \in DOMAIN tasks : FailWrite(d)
    \/ \E d \in DOMAIN tasks : ConsumeResult(d)
    \/ ExecutorExit

RunSpec == RunInit /\ [][RunNext]_vars

-----------------------------------------------------------------------------
(* The summary command over a range of more dates than the pool has        *)
(* workers.  The network is down: every first GET fails with a connection  *)
(* error, so a task is queued, then executing, then failed.                *)

PoolExtraDates == 1

PoolFirstDate == <<2024, 2, 20>>

PoolLastDate ==
    strftime(strptime(PoolFirstDate)[1] + max_workers + PoolExtraDates - 1)

PoolGetOutcomes == {"connection_error"}

PoolInit ==
    /\ SchemaIdle
    /\ ParseIdle
    /\ GapIdle
    /\ opt_from = PoolFirstDate
    /\ opt_to \in {None, Some(PoolLastDate)}
    /\ seeded \in {{}, {PoolFirstDate}, {PoolLastDate}}
    /\ store = SeedStore(seeded)
    /\ last_write = EmptyDict
    /\ last_batch = <<>>
    /\ run_pc = "start"
    /\ run_error = None
    /\ missing_dates = <<>>
    /\ tasks = EmptyDict
    /\ consumed = {}
    /\ db_lock = None
    /\ previous_runs = [store |-> SeedStore(seeded), fetched |-> {}]

PoolNext ==
    \/ InitDatabase
    \/ GetMissingDates
    \/ \E d \in DOMAIN tasks : SubmitTask(d)
    \/ StartCollect
    \/ \E d \in DOMAIN tasks : StartTask(d)
    \/ \E d \in DOMAIN tasks, outcome \in PoolGetOutcomes :
          FirstGet(d, outcome, PageNoTable)
    \/ \E d \in DOMAIN tasks : ConsumeResult(d)
    \/ ExecutorExit

PoolSpec == PoolInit /\ [][PoolNext]_vars

-----------------------------------------------------------------------------
(* The summary command invoked again and again on the same database, each  *)
(* time with its own --from and --to.  A GET answers with a page or fails  *)
(* with a connection error.                                                *)

RerunGetOutcomes == {"ok", "connection_error"}

RerunPages == {PageNoTable, PageTwoStations}

\* a new invocation of the command after the previous one has ended: the
\* process state is gone, the weather_data table is what is left
NextRun ==
    /\ run_pc = "exited"
    /\ opt_from' \in RunWindow
    /\ opt_to' \in {None} \cup {Some(d) : d \in RunWindow}
    /\ run_pc' = "start"
    /\ run_error' = None
    /\ missing_dates' = <<>>
    /\ tasks' = EmptyDict
    /\ consumed' = {}
    /\ db_lock' = None
    /\ previous_runs' = [store |-> store,
                         fetched |-> previous_runs.fetched \cup DOMAIN tasks]
    /\ UNCHANGED <<schemaVars, parseVars, gapVars, storeVars, seeded>>

RerunNext ==
    \/ InitDatabase
    \/ GetMissingDates
    \/ \E d \in DOMAIN tasks : SubmitTask(d)
    \/ StartCollect
    \/ \E d \in DOMAIN tasks : StartTask(d)
    \/ \E d \in DOMAIN tasks, outcome \in RerunGetOutcomes, html \in RerunPages :
          FirstGet(d, outcome, html)
    \/ \E d \in DOMAIN tasks : ParseTask(d)
    \/ \E d \in DOMAIN tasks : ExecuteRow(d)
    \/ \E d \in DOMAIN tasks : CommitBatch(d)
    \/ \E d \in DOMAIN tasks : FailWrite(d)
    \/ \E d \in DOMAIN tasks : ConsumeResult(d)
    \/ ExecutorExit
    \/ NextRun

RerunSpec == RunInit /\ [][RerunNext]_vars

-----------------------------------------------------------------------------
(* C7: every non-empty mapping returned by get_column_mapping assigns      *)
(* pairwise distinct indices whose set is exactly 0..max_index, and the    *)
(* header with all expected groups and subtitles in canonical order        *)
(* resolves to such a mapping (all 17 fields, indices 0..16).              *)
Contiguous(m) ==
    /\ \A f, g \in DOMAIN m : f # g => m[f] # m[g]
    /\ DictValues(m) = 0..(Cardinality(DOMAIN m) - 1)

C7_SchemaContiguity ==
    schema_pc = "resolved" =>
        /\ (column_map_result.kind = "ok"
              /\ DOMAIN column_map_result.column_map # {})
             => Contiguous(column_map_result.column_map)
        /\ (title_row = CanonicalTitleRow /\ subtitle_row = CanonicalSubtitleRow)
             => /\ column_map_result.kind = "ok"
                /\ Cardinality(DOMAIN column_map_result.column_map) = 17
                /\ Contiguous(column_map_result.column_map)

\* a non-empty mapping was returned for a header that skips an unknown
\* column after real fields and for the canonical header
C7_Witness ==
    /\ schema_pc = "resolved"
    /\ column_map_result.kind = "ok"
    /\ Cardinality(DOMAIN column_map_result.column_map) = 17

C7_WitnessGapRejected ==
    /\ schema_pc = "resolved"
    /\ title_row = <<"Unknown", "Station", "Hr.Med(%)">>
    /\ column_map_result.kind = "raise"

-----------------------------------------------------------------------------
(* C5: for every valid inclusive range [from, to] (to omitted meaning      *)
(* to = from) and every set of stored dates, get_missing_dates returns, in *)
(* ascending order and without duplicates, exactly the calendar days of    *)
(* the range whose date string is not stored; 2024-01-01..2024-01-05 with  *)
(* 01-02 and 01-04 stored gives 01-01, 01-03, 01-05, and a range over the  *)
(* end of February 2024 contains the leap day.                             *)
GapValidRange ==
    /\ ~IsNone(strptime(gap_from))
    /\ IsNone(gap_to)
         \/ (~IsNone(strptime(gap_to[1]))
               /\ strptime(gap_to[1])[1] >= strptime(gap_from)[1])

MissingStrings == [i \in DOMAIN gap_result.missing_dates |->
                      strftime(gap_result.missing_dates[i])]

C5_GapResult ==
    (gap_pc = "done" /\ GapValidRange) =>
        LET first == strptime(gap_from)[1]
            last == IF IsNone(gap_to) THEN first ELSE strptime(gap_to[1])[1]
            m == gap_result.missing_dates
        IN /\ gap_result.kind = "ok"
           /\ \A i \in 1..(Len(m) - 1) : m[i] < m[i + 1]
           /\ Range(m) = {d \in first..last : strftime(d) \notin gap_existing}
           /\ (gap_from = <<2024, 1, 1>> /\ gap_to = Some(<<2024, 1, 5>>)
                 /\ gap_existing = {<<2024, 1, 2>>, <<2024, 1, 4>>})
                => MissingStrings = <<<<2024, 1, 1>>, <<2024, 1, 3>>, <<2024, 1, 5>>>>
           /\ (gap_from = <<2024, 2, 28>> /\ gap_to = Some(<<2024, 3, 1>>)
                 /\ gap_existing = {})
                => MissingStrings = <<<<2024, 2, 28>>, <<2024, 2, 29>>, <<2024, 3, 1>>>>

C5_Witness ==
    /\ gap_pc = "done"
    /\ gap_from = <<2024, 1, 1>>
    /\ gap_to = Some(<<2024, 1, 5>>)
    /\ gap_existing = {<<2024, 1, 2>>, <<2024, 1, 4>>}
    /\ Len(gap_result.missing_dates) = 3

-----------------------------------------------------------------------------
(* C1: for a page whose header is one Station title and one Temperature    *)
(* group with subtitles Max/Min/Med, followed by one well-formed data row, *)
(* parse_ogimet_data returns exactly one observation whose temp_max,       *)
(* temp_min and temp_med are the values of the row's cells and whose       *)
(* station_id and station_name are the two halves of the station label.    *)
C1_WellFormedRow(r) ==
    /\ Len(r.td) = 4
    /\ IsNone(r.td[1].a)
    /\ Len(Split(Strip(r.td[1].text), <<"-">>)) = 2
    /\ \A i \in 2..4 : ~IsNone(parse_numeric(Strip(r.td[i].text)))

C1_Page ==
    /\ ~IsNone(page)
    /\ Len(page[1]) = 4
    /\ SubSeq(page[1], 1, 3) = <<CaptionRow>> \o HeaderTemperatureStation
    /\ C1_WellFormedRow(page[1][4])

C1_EndToEnd ==
    (parse_pc = "parsed" /\ C1_Page) =>
        LET r == page[1][4]
            label == Split(Strip(r.td[1].text), <<"-">>)
            b == parse_result.batch
        IN /\ parse_result.kind = "ok"
           /\ Len(b) = 1
           /\ b[1].temp_max = parse_numeric(Strip(r.td[2].text))
           /\ b[1].temp_min = parse_numeric(Strip(r.td[3].text))
           /\ b[1].temp_med = parse_numeric(Strip(r.td[4].text))
           /\ b[1].station_id = Strip(label[1])
           /\ b[1].station_name = Strip(label[2])

\* the same page with a Dailyweather summary column added is extracted
C1_WithSummaryColumn ==
    /\ parse_pc = "parsed"
    /\ ~IsNone(page)
    /\ Len(page[1]) = 4
    /\ page[1][2].th = <<"Station", "Temperature(C)", "Dailyweather summary">>
    /\ Len(parse_result.batch) = 1

-----------------------------------------------------------------------------
(* C6: after any sequence of insert_weather_data calls the store holds at  *)
(* most one row per (date, time, station_id) key, that row is the most     *)
(* recent write of the key, and writing the last batch once more leaves    *)
(* the stored observations unchanged.                                      *)
C6_UpsertIdempotent ==
    /\ \A r1, r2 \in store : Key(r1) = Key(r2) => r1 = r2
    /\ {Key(r) : r \in store} = DOMAIN last_write
    /\ \A r \in store : last_write[Key(r)] = r
    /\ ExecuteMany(store, last_batch) = store

\* a key written twice with different values, the second time in a batch
\* that holds the key twice
C6_Witness ==
    /\ Len(last_batch) = 2
    /\ Key(last_batch[1]) = Key(last_batch[2])
    /\ last_batch[1] # last_batch[2]
    /\ Cardinality(store) = 3

-----------------------------------------------------------------------------
(* C2: whatever tasks fail, no other submitted task is ever cancelled or   *)
(* skipped: when the command has left the executor block every task has    *)
(* finished, each one that finished normally issued its fetch, and each    *)
(* one that committed a batch has all of it in the store, also when the    *)
(* task was still queued at the moment a failure reached the main thread.  *)
StoredRowsOf(d) == {r \in store : r.date = strftime(d)}

C2_SiblingIsolation ==
    \A d \in DOMAIN tasks :
        /\ tasks[d].pc # "cancelled"
        /\ run_pc = "exited" =>
              /\ tasks[d].pc \in {"done", "failed"}
              /\ tasks[d].pc = "done" => Len(tasks[d].outcomes) >= 1
              /\ (tasks[d].pc = "done" /\ ~tasks[d].write_failed)
                   => StoredRowsOf(d) = Range(tasks[d].batch)

C2_Witness ==
    /\ run_pc = "exited"
    /\ run_error # None
    /\ \E d \in DOMAIN tasks :
          /\ tasks[d].queued_at_raise
          /\ tasks[d].pc = "done"
          /\ tasks[d].batch # <<>>
          /\ StoredRowsOf(d) = Range(tasks[d].batch)

-----------------------------------------------------------------------------
(* C3: when some of the per-date tasks fail, the command still finishes    *)
(* normally (and reports the failures in a summary) instead of the         *)
(* failure propagating out of the run.                                     *)
C3_FailuresStayLocal ==
    (run_pc = "exited" /\ \E d \in DOMAIN tasks : tasks[d].pc = "failed")
        => run_error = None

-----------------------------------------------------------------------------
(* C4: one fetch issues at most two GETs; the second GET is issued if and  *)
(* only if the first one timed out; another failure of the first GET is    *)
(* raised without a retry; a timeout of both GETs is raised to the caller. *)
C4_SingleRetry ==
    \A d \in DOMAIN tasks :
        LET o == tasks[d].outcomes
        IN /\ Len(o) <= 2
           /\ Len(o) = 2 => o[1] = "timeout"
           /\ (Len(o) >= 1 /\ o[1] = "timeout" /\ tasks[d].pc # "retry")
                => Len(o) = 2
           /\ (Len(o) >= 1 /\ o[1] \in {"error_status", "connection_error"})
                => /\ Len(o) = 1
                   /\ tasks[d].pc = "failed"
                   /\ tasks[d].exc = Some(ExceptionOf(o[1]))
           /\ o = <<"timeout", "timeout">>
                => /\ tasks[d].pc = "failed"
                   /\ tasks[d].exc = Some("Timeout")

C4_Witness ==
    \E d, e \in DOMAIN tasks :
        /\ tasks[d].outcomes = <<"timeout", "timeout">>
        /\ tasks[d].pc = "failed"
        /\ tasks[e].outcomes = <<"connection_error">>
        /\ tasks[e].pc = "failed"

-----------------------------------------------------------------------------
(* C8: a task that fails, at the fetch, at the schema resolution or in the *)
(* middle of the store write of its batch, leaves no row in the store:     *)
(* the rows stored for a date are none or the whole batch of its task,     *)
(* never a prefix of the batch.                                            *)
C8_NoPartialRows ==
    /\ \A d \in DOMAIN tasks :
          /\ (tasks[d].pc = "failed" \/ tasks[d].write_failed)
                => StoredRowsOf(d) = {}
          /\ StoredRowsOf(d) \in {{}, Range(tasks[d].batch)}
    /\ \A r \in store :
          r.date \in seeded \/ \E d \in DOMAIN tasks : r.date = strftime(d)

\* the write of a two-row batch failed after its first statement
C8_Witness ==
    \E d \in DOMAIN tasks :
        /\ tasks[d].write_failed
        /\ tasks[d].written = 1
        /\ Len(tasks[d].batch) = 2
        /\ StoredRowsOf(d) = {}

-----------------------------------------------------------------------------
(* C9, as stated: a store write failure inside a task makes the result of  *)
(* the task that the orchestrator observes a failure.                      *)
C9_WriteFailureSurfaced ==
    \A d \in DOMAIN tasks : tasks[d].write_failed => tasks[d].pc = "failed"

(* C9, amended: a store write failure inside a task is caught and printed  *)
(* inside the task; the result the orchestrator observes is a normal       *)
(* completion, so an error of the run always comes from a task that        *)
(* failed otherwise; the task leaves no row in the store and its siblings  *)
(* are neither cancelled nor left unfinished.                              *)
C9_WriteFailureSwallowed ==
    /\ \A d \in DOMAIN tasks :
          tasks[d].write_failed =>
              /\ tasks[d].pc = "done"
              /\ tasks[d].exc = None
              /\ StoredRowsOf(d) = {}
              /\ \A e \in DOMAIN tasks :
                    /\ tasks[e].pc # "cancelled"
                    /\ run_pc = "exited" => tasks[e].pc \in {"done", "failed"}
    /\ (run_error # None /\ DOMAIN tasks # {})
          => \E e \in DOMAIN tasks :
                tasks[e].pc = "failed" /\ tasks[e].exc = run_error

C9_Witness ==
    /\ run_pc = "exited"
    /\ run_error = None
    /\ \E d, e \in DOMAIN tasks :
          /\ tasks[d].write_failed
          /\ d \in consumed
          /\ e # d
          /\ ~tasks[e].write_failed
          /\ tasks[e].batch # <<>>
          /\ StoredRowsOf(e) = Range(tasks[e].batch)

-----------------------------------------------------------------------------
(* C10: when --to is earlier than --from the command fails with the        *)
(* ValueError of create_date_range, and in that run no task is submitted,  *)
(* no GET is issued and the store keeps exactly the rows it had.           *)
InvalidRange ==
    /\ ~IsNone(opt_to)
    /\ strptime(opt_to[1])[1] < strptime(opt_from)[1]

C10_InvalidRangeRejected ==
    (run_pc # "idle" /\ InvalidRange) =>
        /\ run_pc \in {"start", "gap", "exited"}
        /\ run_pc = "exited" => run_error = Some("ValueError")
        /\ DOMAIN tasks = {}
        /\ missing_dates = <<>>
        /\ store = SeedStore(seeded)

C10_Witness ==
    /\ InvalidRange
    /\ seeded = {}
    /\ run_pc = "exited"
    /\ run_error = Some("ValueError")

-----------------------------------------------------------------------------
(* C11: in every reachable state of a summary run at most max_workers = 10 *)
(* per-date tasks are executing (in fetch, parse or persist) at the same   *)
(* time, also when more than 10 dates are missing; the missing dates are   *)
(* pairwise distinct and each one has exactly one task, which a worker     *)
(* takes at most once and, by the time the command has left the executor   *)
(* block, exactly once.                                                    *)
ExecutingTasks == {d \in DOMAIN tasks : tasks[d].pc \in Executing}

C11_BoundedConcurrency ==
    /\ Cardinality(ExecutingTasks) <= max_workers
    /\ \A i, j \in DOMAIN missing_dates :
          missing_dates[i] = missing_dates[j] => i = j
    /\ run_pc \in {"submit", "collect", "unwinding", "exited"}
          => DOMAIN tasks = Range(missing_dates)
    /\ \A d \in DOMAIN tasks :
          /\ tasks[d].runs <= 1
          /\ (tasks[d].runs = 1) <=> (tasks[d].pc \notin {"new", "queued"})
          /\ run_pc \in {"collect", "unwinding", "exited"} => tasks[d].pc # "new"
          /\ run_pc = "exited" => tasks[d].runs = 1

\* more dates are missing than the pool has workers: every worker is busy
\* and a submitted task waits in the queue
C11_Witness ==
    /\ Len(missing_dates) > max_workers
    /\ Cardinality(ExecutingTasks) = max_workers
    /\ \E d \in DOMAIN tasks : tasks[d].pc = "queued"

\* with more dates than workers the command still ends with every task run
C11_WitnessAllRun ==
    /\ Len(missing_dates) > max_workers
    /\ run_pc = "exited"
    /\ \A d \in DOMAIN tasks : tasks[d].runs = 1

-----------------------------------------------------------------------------
(* C12: the summary command invoked with a valid --from date, alone or     *)
(* with a --to date not earlier than it, ends with exit code 0: whatever   *)
(* dates are stored, no exception escapes the command.                     *)
ValidRange ==
    /\ ~IsNone(strptime(opt_from))
    /\ IsNone(opt_to)
         \/ (~IsNone(strptime(opt_to[1]))
               /\ strptime(opt_to[1])[1] >= strptime(opt_from)[1])

C12_ExitsZero ==
    (run_pc \in {"unwinding", "exited"} /\ ValidRange) => IsNone(run_error)

-----------------------------------------------------------------------------
(* C13: when the fetched page has no data table, or its header resolves to *)
(* fewer than two fields (also when the resolved indices have a gap), the  *)
(* task produces an empty batch, writes nothing to the store, raises       *)
(* nothing and completes normally.                                         *)
ResolvedFields(html) ==
    DOMAIN WalkTitles(html[1][2].th, 1, html[1][3].th,
                      [column_map |-> EmptyDict, current_index |-> 0]).column_map

NoData(html) ==
    \/ IsNone(html)
    \/ Len(html[1]) >= 3 /\ Cardinality(ResolvedFields(html)) < 2

\* the fetch of the task returned a response and the task has parsed it
Parsed(d) ==
    LET o == tasks[d].outcomes
    IN /\ tasks[d].pc \in {"persist", "done", "failed"}
       /\ \/ Len(o) = 1 /\ o[1] = "ok"
          \/ Len(o) = 2 /\ o[2] \in {"ok", "error_status"}

C13_NoDataIsNotAnError ==
    \A d \in DOMAIN tasks :
        (Parsed(d) /\ NoData(tasks[d].html)) =>
            /\ tasks[d].pc = "done"
            /\ tasks[d].batch = <<>>
            /\ IsNone(tasks[d].exc)
            /\ tasks[d].written = 0
            /\ ~tasks[d].write_failed
            /\ StoredRowsOf(d) = {}

\* one task got a page without table, another a page whose only resolved
\* field sits at index 1; both are done and the command ended normally
C13_Witness ==
    /\ run_pc = "exited"
    /\ IsNone(run_error)
    /\ \E d, e \in DOMAIN tasks :
          /\ Parsed(d) /\ tasks[d].html = PageNoTable /\ tasks[d].pc = "done"
          /\ Parsed(e) /\ tasks[e].html = PageOneFieldGap /\ tasks[e].pc = "done"
          /\ store = SeedStore(seeded)

-----------------------------------------------------------------------------
(* C14: for every station label that contains at least one "-" separator,  *)
(* station_id is the trimmed text before the first separator and           *)
(* station_name is the trimmed text of everything after that first         *)
(* separator.                                                              *)
BeforeFirst(s, sep) == SubSeq(s, 1, FindSub(s, sep, 1) - 1)

AfterFirst(s, sep) == SubSeq(s, FindSub(s, sep, 1) + Len(sep), Len(s))

\* the page has one data row, and the row was extracted
OneRowExtracted ==
    /\ parse_pc = "parsed"
    /\ ~IsNone(page)
    /\ Len(page[1]) = 4
    /\ parse_result.kind = "ok"
    /\ Len(parse_result.batch) = 1

C14_StationSplit ==
    OneRowExtracted =>
        LET station == StationLabel(page[1][4].td).station[1]
            b == parse_result.batch[1]
        IN Contains(station, <<"-">>) =>
              /\ b.station_id = Strip(BeforeFirst(station, <<"-">>))
              /\ b.station_name = Strip(AfterFirst(station, <<"-">>))

-----------------------------------------------------------------------------
(* C15, as stated: when the title row holds a title outside the known      *)
(* vocabulary, at any position, get_column_mapping does not fail and       *)
(* returns the mapping of the fields of the known titles (the empty        *)
(* mapping when there are fewer than two).                                 *)
IsUnknown(title) == title \notin ExpectedTitles

HasUnknownTitle == \E i \in DOMAIN title_row : IsUnknown(title_row[i])

\* the number of columns a title stands for
Width(title, subrow) ==
    IF IsUnknown(title) \/ IsNone(expected(title)) THEN 1
    ELSE Cardinality({j \in DOMAIN expected(title)[1] :
                         expected(title)[1][j] \in Range(subrow)})

RECURSIVE ColumnsBefore(_, _, _)
ColumnsBefore(titles, i, subrow) ==
    IF i <= 1 THEN 0
    ELSE ColumnsBefore(titles, i - 1, subrow) + Width(titles[i - 1], subrow)

\* the fields of the known titles of the row
FieldsOf(titles, subrow) ==
    {SingleField(titles[i]) :
        i \in {k \in DOMAIN titles :
                  ~IsUnknown(titles[k]) /\ IsNone(expected(titles[k]))}}
    \cup UNION {{GroupField(titles[i], sub) :
                    sub \in Range(expected(titles[i])[1]) \cap Range(subrow)} :
                i \in {k \in DOMAIN titles :
                          ~IsUnknown(titles[k]) /\ ~IsNone(expected(titles[k]))}}

UnknownBeforeField ==
    \E i, j \in DOMAIN title_row :
        /\ i < j
        /\ IsUnknown(title_row[i])
        /\ ~IsUnknown(title_row[j])
        /\ Width(title_row[j], subtitle_row) >= 1

KnownTitlesDistinct ==
    \A i, j \in DOMAIN title_row :
        (i # j /\ ~IsUnknown(title_row[i])) => title_row[i] # title_row[j]

C15_UnknownTolerated ==
    (schema_pc = "resolved" /\ HasUnknownTitle) =>
        /\ column_map_result.kind = "ok"
        /\ DOMAIN column_map_result.column_map =
              IF Cardinality(FieldsOf(title_row, subtitle_row)) < 2 THEN {}
              ELSE FieldsOf(title_row, subtitle_row)

(* C15, amended: an unknown title takes one column and no field is         *)
(* assigned to that column; the mapping of the known titles is returned    *)
(* when no resolved field follows an unknown title, and is the empty       *)
(* mapping when fewer than two fields are resolved; when an unknown title  *)
(* precedes a resolved field and at least two fields are resolved, the     *)
(* contiguity check finds the unassigned index and get_column_mapping      *)
(* raises.                                                                 *)
C15_UnknownTrailingOnly ==
    (schema_pc = "resolved" /\ HasUnknownTitle) =>
        LET m == column_map_result.column_map
            fields == FieldsOf(title_row, subtitle_row)
        IN /\ \A i \in DOMAIN title_row :
                 IsUnknown(title_row[i]) =>
                     ColumnsBefore(title_row, i, subtitle_row) \notin DictValues(m)
           /\ \A i \in DOMAIN title_row :
                 (/\ ~IsUnknown(title_row[i])
                  /\ IsNone(expected(title_row[i]))
                  /\ \A j \in DOMAIN title_row : j > i => title_row[j] # title_row[i]
                  /\ SingleField(title_row[i]) \in DOMAIN m)
                    => m[SingleField(title_row[i])] =
                           ColumnsBefore(title_row, i, subtitle_row)
           /\ Cardinality(fields) < 2
                 => column_map_result = [kind |-> "ok", column_map |-> EmptyDict]
           /\ (Cardinality(fields) >= 2 /\ UnknownBeforeField)
                 => column_map_result.kind = "raise"
           /\ (Cardinality(fields) >= 2 /\ ~UnknownBeforeField
                   /\ KnownTitlesDistinct)
                 => /\ column_map_result.kind = "ok"
                    /\ DOMAIN m = fields

\* an unknown title after the known ones is tolerated
C15_Witness ==
    /\ schema_pc = "resolved"
    /\ title_row = <<"Station", "Temperature(C)", "Unknown">>
    /\ subtitle_row = <<"Max", "Med">>
    /\ column_map_result.kind = "ok"
    /\ DOMAIN column_map_result.column_map = {"station", "temp_max", "temp_med"}

-----------------------------------------------------------------------------
(* C16: in every extracted observation wind_dir and weather_summary equal  *)
(* the trimmed text of their mapped cells, an empty-marker cell (blank or  *)
(* 3 to 5 dashes) giving an absent value; weather_summary is populated     *)
(* whenever the schema maps the weather-summary column and the cell is not *)
(* an empty marker.                                                        *)
PageColumnMap == get_column_mapping(page[1][2].th, page[1][3].th).column_map

C16_TextFieldsPassThrough ==
    OneRowExtracted =>
        LET cells == page[1][4].td
            b == parse_result.batch[1]
        IN \A f \in {"wind_dir", "weather_summary"} \cap DOMAIN PageColumnMap :
              b[f] = null_if_empty(Strip(cells[PageColumnMap[f] + 1].text))

-----------------------------------------------------------------------------
(* C17: a data row with fewer cells than the schema has fields, with an    *)
(* empty or "Summary" station label, with a station label without          *)
(* separator, or whose record construction fails, is skipped without       *)
(* raising, and the rows after it are extracted as if it were not there:   *)
(* the result of the page is the result of the page without these rows.    *)
HasHeader == ~IsNone(page) /\ Len(page[1]) >= 3

RowLabel(row) == StationLabel(row.td)

ShortRow(row, column_map) == Len(row.td) < Cardinality(DOMAIN column_map)

NoStationRow(row) ==
    /\ RowLabel(row).kind = "ok"
    /\ IsNone(RowLabel(row).station) \/ RowLabel(row).station[1] = SummaryLabel

NoSeparatorRow(row) ==
    /\ RowLabel(row).kind = "ok"
    /\ ~IsNone(RowLabel(row).station)
    /\ ~Contains(RowLabel(row).station[1], <<"-">>)

\* snow_depth is the one field whose type (int) a parsed number can fail
ConstructionFailsRow(row, column_map) ==
    /\ RowLabel(row).kind = "ok"
    /\ ~IsNone(RowLabel(row).station)
    /\ Contains(RowLabel(row).station[1], <<"-">>)
    /\ "snow_depth" \in DOMAIN column_map
    /\ LET v == parse_numeric(Strip(row.td[column_map["snow_depth"] + 1].text))
       IN ~IsNone(v) /\ v[1].e > 0

ProblemRow(row, column_map) ==
    \/ ShortRow(row, column_map)
    \/ ~ShortRow(row, column_map)
         /\ (NoStationRow(row) \/ NoSeparatorRow(row)
               \/ ConstructionFailsRow(row, column_map))

DataRows == SubSeq(page[1], 4, Len(page[1]))

WithoutProblemRows ==
    Some(SubSeq(page[1], 1, 3)
         \o SelectSeq(DataRows, LAMBDA r : ~ProblemRow(r, PageColumnMap)))

C17_RowProblemsNotFatal ==
    (parse_pc = "parsed" /\ HasHeader /\ DOMAIN PageColumnMap # {}) =>
        /\ parse_result =
              parse_ogimet_data(SampleQueryDate, QueryTime, WithoutProblemRows)
        /\ (\A i \in DOMAIN DataRows : ProblemRow(DataRows[i], PageColumnMap))
              => parse_result = [kind |-> "ok", batch |-> <<>>]

\* the first data row has a label without separator, the second one is
\* extracted
C17_Witness ==
    /\ parse_pc = "parsed"
    /\ HasHeader
    /\ DOMAIN PageColumnMap # {}
    /\ Len(DataRows) = 2
    /\ NoSeparatorRow(DataRows[1])
    /\ parse_result.kind = "ok"
    /\ Len(parse_result.batch) = 1
    /\ parse_result.batch[1].station_id = <<"1", "2", "3", "4", "5">>

\* the record of the first data row fails construction (a snow depth of
\* 7.5), the second one is extracted
C17_WitnessConstruction ==
    /\ parse_pc = "parsed"
    /\ HasHeader
    /\ DOMAIN PageColumnMap # {}
    /\ Len(DataRows) = 2
    /\ ~ShortRow(DataRows[1], PageColumnMap)
    /\ ConstructionFailsRow(DataRows[1], PageColumnMap)
    /\ Len(parse_result.batch) = 1

-----------------------------------------------------------------------------
(* C18: when the number of fields populated for a row (without date and    *)
(* time) differs from the schema's field count at the k-th data row,       *)
(* parse_ogimet_data stops there: it returns exactly what the rows before  *)
(* k give, in source order, and the rows after k contribute nothing.       *)
\* the row gets as far as the comparison of the two counts
ReachesCrossCheck(row, column_map) ==
    /\ ~ShortRow(row, column_map)
    /\ RowLabel(row).kind = "ok"
    /\ ~NoStationRow(row)
    /\ ~NoSeparatorRow(row)

\* station_id, station_name and one entry per numeric or text field read
PopulatedCount(column_map) ==
    2 + Cardinality((NumericFields \cup TextFields) \cap DOMAIN column_map)

MismatchAt(i) ==
    /\ i \in DOMAIN DataRows
    /\ ReachesCrossCheck(DataRows[i], PageColumnMap)
    /\ PopulatedCount(PageColumnMap) # Cardinality(DOMAIN PageColumnMap)

FirstMismatchAt(k) == MismatchAt(k) /\ \A i \in 1..(k - 1) : ~MismatchAt(i)

RowsBefore(k) == Some(SubSeq(page[1], 1, 3) \o SubSeq(DataRows, 1, k - 1))

C18_CrossCheckFailFast ==
    (parse_pc = "parsed" /\ HasHeader /\ DOMAIN PageColumnMap # {}) =>
        \A k \in DOMAIN DataRows :
            FirstMismatchAt(k) =>
                /\ parse_result =
                      parse_ogimet_data(SampleQueryDate, QueryTime, RowsBefore(k))
                /\ Len(parse_result.batch) <= k - 1

\* the counts differ at the first of two well-formed rows: the second row
\* contributes nothing
C18_Witness ==
    /\ parse_pc = "parsed"
    /\ HasHeader
    /\ DOMAIN PageColumnMap # {}
    /\ Len(DataRows) = 2
    /\ FirstMismatchAt(1)
    /\ ReachesCrossCheck(DataRows[2], PageColumnMap)
    /\ parse_result = [kind |-> "ok", batch |-> <<>>]

-----------------------------------------------------------------------------
(* C19: get_column_mapping assigns the indices of a group's fields in the  *)
(* canonical order of the expected subtitles and uses the subtitle row     *)
(* only as a membership test: the result is the same for every             *)
(* permutation of the subtitle row, and a subtitle missing from the row    *)
(* reserves no index.                                                      *)
PermutationsOf(s) ==
    {[i \in DOMAIN s |-> s[p[i]]] : p \in Permutations(DOMAIN s)}

\* the number of the group's subtitles before the j-th that are in the row
RankAmongPresent(subtitles, j, subrow) ==
    Cardinality({k \in 1..(j - 1) : subtitles[k] \in Range(subrow)})

C19_CanonicalOrder ==
    schema_pc = "resolved" =>
        LET m == column_map_result.column_map
        IN /\ \A p \in PermutationsOf(subtitle_row) :
                 get_column_mapping(title_row, p) = column_map_result
           /\ (~HasUnknownTitle /\ KnownTitlesDistinct
                  /\ Cardinality(FieldsOf(title_row, subtitle_row)) >= 2)
                => /\ column_map_result.kind = "ok"
                   /\ \A i \in DOMAIN title_row :
                         ~IsNone(expected(title_row[i])) =>
                             LET subtitles == expected(title_row[i])[1]
                             IN \A j \in DOMAIN subtitles :
                                   IF subtitles[j] \in Range(subtitle_row)
                                   THEN m[GroupField(title_row[i], subtitles[j])]
                                          = ColumnsBefore(title_row, i, subtitle_row)
                                            + RankAmongPresent(subtitles, j,
                                                               subtitle_row)
                                   ELSE GroupField(title_row[i], subtitles[j])
                                          \notin DOMAIN m

\* the subtitle row lists Gust before Dir. and has no Int.: wind_dir still
\* comes first and wind_gust takes the next index
C19_Witness ==
    /\ schema_pc = "resolved"
    /\ title_row = <<"Station", "Wind(km/h)">>
    /\ subtitle_row = <<"Gust", "Dir.">>
    /\ column_map_result.kind = "ok"
    /\ column_map_result.column_map =
          [f \in {"station", "wind_dir", "wind_gust"} |->
              CASE f = "station" -> 0 [] f = "wind_dir" -> 1
                [] f = "wind_gust" -> 2]

-----------------------------------------------------------------------------
(* C20: the field-count cross-check has the same outcome for every row of  *)
(* a page that reaches it: it passes if and only if the schema holds both  *)
(* the station field and the weather_summary field.  Hence a page whose    *)
(* header lacks the Station title or the Dailyweather summary title yields *)
(* no observation, whatever its data rows hold.                            *)
CrossCheckPasses(row) ==
    ExtractRow(SampleQueryDate, QueryTime, row, PageColumnMap).act # "break"

C20_CrossCheckBySchema ==
    (parse_pc = "parsed" /\ HasHeader) =>
        /\ DOMAIN PageColumnMap # {} =>
              \A i \in DOMAIN DataRows :
                  ReachesCrossCheck(DataRows[i], PageColumnMap) =>
                      (CrossCheckPasses(DataRows[i])
                         <=> {"station", "weather_summary"}
                                \subseteq DOMAIN PageColumnMap)
        /\ ("Station" \notin Range(page[1][2].th)
               \/ "Dailyweather summary" \notin Range(page[1][2].th))
              => parse_result.batch = <<>>

\* a header without Station title: two rows with a valid station label
\* and a cell for every field, and no observation
C20_Witness ==
    /\ parse_pc = "parsed"
    /\ HasHeader
    /\ page[1][2].th = <<"Temperature(C)", "Dailyweather summary">>
    /\ Len(DataRows) = 2
    /\ \A i \in DOMAIN DataRows : ReachesCrossCheck(DataRows[i], PageColumnMap)
    /\ parse_result = [kind |-> "ok", batch |-> <<>>]

\* with both titles in the header the check passes and rows are extracted
C20_WitnessPasses ==
    /\ parse_pc = "parsed"
    /\ HasHeader
    /\ {"station", "weather_summary"} \subseteq DOMAIN PageColumnMap
    /\ Len(DataRows) = 2
    /\ Len(parse_result.batch) = 2

-----------------------------------------------------------------------------
(* C21: a date of the requested range is returned as missing by a run if   *)
(* and only if the store holds no observation of that date when the run    *)
(* starts; so a date for which an earlier run persisted at least one row   *)
(* is not fetched again, and a date whose earlier task left no row (an     *)
(* empty batch, a failed fetch or a failed write) is fetched again by a    *)
(* later run whose range contains it.                                      *)
RequestedRange ==
    LET first == strptime(opt_from)[1]
        last == IF IsNone(opt_to) THEN first ELSE strptime(opt_to[1])[1]
    IN first..last

HeldBefore(d) == \E r \in previous_runs.store : r.date = strftime(d)

\* the run has computed its missing dates
GapComputed == run_pc \in {"submit", "collect", "unwinding"}
                 \/ (run_pc = "exited" /\ run_error # Some("ValueError"))

C21_GapConvergence ==
    GapComputed =>
        /\ Range(missing_dates) = {d \in RequestedRange : ~HeldBefore(d)}
        /\ DOMAIN tasks = Range(missing_dates)
        /\ \A d \in previous_runs.fetched :
              /\ HeldBefore(d) => d \notin DOMAIN tasks
              /\ (~HeldBefore(d) /\ d \in RequestedRange) => d \in DOMAIN tasks
        /\ run_pc = "exited" =>
              \A d \in DOMAIN tasks : Len(tasks[d].outcomes) >= 1

\* a later run over two dates the earlier runs had tasks for: the date
\* that was persisted is left out, the date that left no row is fetched
\* again
C21_Witness ==
    /\ run_pc = "exited"
    /\ seeded = {}
    /\ Cardinality(RequestedRange) = 2
    /\ RequestedRange \subseteq previous_runs.fetched
    /\ \E d, e \in RequestedRange :
          /\ HeldBefore(d)
          /\ d \notin DOMAIN tasks
          /\ ~HeldBefore(e)
          /\ e \in DOMAIN tasks
          /\ Len(tasks[e].outcomes) = 1

-----------------------------------------------------------------------------
(* C22: an HTTP error-status response raises when it answers the first GET *)
(* of fetch_ogimet_data; when it answers the retry GET issued after a      *)
(* timeout it is returned as page content, and the task goes on to parse   *)
(* it like a normal page.                                                  *)
C22_RetryNotStatusChecked ==
    \A d \in DOMAIN tasks :
        /\ tasks[d].outcomes = <<"error_status">>
              => /\ tasks[d].pc = "failed"
                 /\ tasks[d].exc = Some("HTTPError")
        /\ tasks[d].outcomes = <<"timeout", "error_status">>
              => /\ tasks[d].pc \in {"parse", "persist", "done"}
                 /\ IsNone(tasks[d].exc)
                 /\ tasks[d].html = ErrorPage
                 /\ tasks[d].pc # "parse" =>
                       tasks[d].batch =
                           parse_ogimet_data(strftime(d), QueryTime,
                                             ErrorPage).batch

\* in one run an error status answered the first GET of one task, which
\* failed, and the retry GET of another, which parsed the response and
\* completed
C22_Witness ==
    \E d, e \in DOMAIN tasks :
        /\ tasks[d].outcomes = <<"timeout", "error_status">>
        /\ tasks[d].pc = "done"
        /\ tasks[e].outcomes = <<"error_status">>
        /\ tasks[e].pc = "failed"

====
